---- MODULE Spec2Model ----
(***************************************************************************)
(* Model of src/js/models/scaleData/coordinateScaleCalculator.js.         *)
(*                                                                         *)
(* The calculator is a pure function of a request                          *)
(* {min, max, offsetSize, stepCount?, minimumStepSize?}.  JavaScript       *)
(* numbers are modelled as exact rationals <<n, d>> in lowest terms with   *)
(* d > 0, extended with the three non-finite values a division by zero     *)
(* produces: NaN = <<0, 0>>, +Infinity = <<1, 0>>, -Infinity = <<-1, 0>>.  *)
(* Rounding of the binary representation is not modelled: every operation  *)
(* yields the exact result.                                                *)
(***************************************************************************)
EXTENDS Integers, Sequences, FiniteSets, TLC

(***************************************************************************)
(* Bounds of the model.                                                    *)
(***************************************************************************)
\* min and max range over k * unit, k in -MaxK..MaxK
MaxK == 4
\* the largest stepCount option a request supplies
MaxStepCount == 3
\* number of calls in a chain (the first call plus re-normalizations)
MaxCalls == 2

(***************************************************************************)
(* Numbers.                                                                *)
(***************************************************************************)
NaN == <<0, 0>>
Infinity == <<1, 0>>
undefined == <<>>

RECURSIVE GCD(_, _)
GCD(a, b) == IF b = 0 THEN a ELSE GCD(b, a % b)

AbsInt(a) == IF a < 0 THEN -a ELSE a

SignInt(a) == IF a < 0 THEN -1 ELSE IF a = 0 THEN 0 ELSE 1

\* the number n / d; d = 0 yields NaN or a signed infinity
Num(n, d) ==
    IF d = 0 THEN <<SignInt(n), 0>>
    ELSE LET g == GCD(AbsInt(n), AbsInt(d))
             s == IF d < 0 THEN -1 ELSE 1
         IN  <<s * (n \div g), s * (d \div g)>>

Whole(n) == <<n, 1>>

isNaN(x) == x = NaN

isFinite(x) == x[2] # 0

Mul(x, y) == Num(x[1] * y[1], x[2] * y[2])

Recip(x) == IF x[1] < 0 THEN <<-x[2], -x[1]>> ELSE <<x[2], x[1]>>

Div(x, y) == Mul(x, Recip(y))

Neg(x) == <<-x[1], x[2]>>

Add(x, y) ==
    IF isNaN(x) \/ isNaN(y) THEN NaN
    ELSE IF ~isFinite(x) /\ ~isFinite(y) THEN (IF x = y THEN x ELSE NaN)
    ELSE IF ~isFinite(x) THEN x
    ELSE IF ~isFinite(y) THEN y
    ELSE Num(x[1] * y[2] + y[1] * x[2], x[2] * y[2])

Sub(x, y) == Add(x, Neg(y))

Abs(x) == <<AbsInt(x[1]), x[2]>>

\* x < y; false when either side is NaN
Lt(x, y) ==
    IF isNaN(x) \/ isNaN(y) THEN FALSE
    ELSE IF ~isFinite(x) /\ ~isFinite(y) THEN x[1] < y[1]
    ELSE x[1] * y[2] < y[1] * x[2]

Le(x, y) == ~isNaN(x) /\ ~isNaN(y) /\ ~Lt(y, x)

Gt(x, y) == Lt(y, x)

\* Math.min of two numbers
Min(x, y) == IF isNaN(x) \/ isNaN(y) THEN NaN ELSE IF Lt(y, x) THEN y ELSE x

\* Math.floor
Floor(x) == IF ~isFinite(x) THEN x ELSE Whole(x[1] \div x[2])

\* Math.ceil
Ceil(x) == IF ~isFinite(x) THEN x ELSE Whole(-((-x[1]) \div x[2]))

(***************************************************************************)
(* The module's constants.                                                 *)
(***************************************************************************)
SNAP_VALUES == <<1, 2, 5, 10>>

DEFAULT_PIXELS_PER_STEP == 88

(***************************************************************************)
(* getDigits: 10 ^ floor(log10 |number|); for 0 the logarithm is replaced  *)
(* by the literal 1, so the result is 10 ^ 1.  The floor of the logarithm  *)
(* is the exact one.                                                       *)
(***************************************************************************)
RECURSIVE Pow10Floor(_, _)
\* the power of ten p' with p' <= a < 10 * p', searched from p (a > 0 finite)
Pow10Floor(a, p) ==
    IF Lt(a, p) THEN Pow10Floor(a, Div(p, Whole(10)))
    ELSE IF Le(Mul(p, Whole(10)), a) THEN Pow10Floor(a, Mul(p, Whole(10)))
    ELSE p

\* getDigits without the special case of 0: 10 ^ floor(log 0) = 10 ^ -Infinity
getDigits_nozero(number) ==
    IF number = Whole(0) THEN Whole(0)
    ELSE IF isNaN(number) THEN NaN
    ELSE IF ~isFinite(number) THEN Infinity
    ELSE Pow10Floor(Abs(number), Whole(1))

getDigits(number) ==
    IF number = Whole(0) THEN Whole(10)
    ELSE IF isNaN(number) THEN NaN
    ELSE IF ~isFinite(number) THEN Infinity
    ELSE Pow10Floor(Abs(number), Whole(1))

(***************************************************************************)
(* getSnappedNumber: scan SNAP_VALUES, stop at the first value whose       *)
(* midpoint with its successor is >= number; the last value otherwise.     *)
(***************************************************************************)
RECURSIVE SnapLoop(_, _)
SnapLoop(number, i) ==
    LET snapNumber == SNAP_VALUES[i]
        next == IF i + 1 <= Len(SNAP_VALUES) THEN SNAP_VALUES[i + 1] ELSE snapNumber
        guideValue == Num(snapNumber + next, 2)
    IN  IF Le(number, guideValue) \/ i = Len(SNAP_VALUES)
        THEN Whole(snapNumber)
        ELSE SnapLoop(number, i + 1)

RECURSIVE SnapLoop_up(_, _)
SnapLoop_up(number, i) ==
    IF Le(number, Whole(SNAP_VALUES[i])) \/ i = Len(SNAP_VALUES)
    THEN Whole(SNAP_VALUES[i])
    ELSE SnapLoop_up(number, i + 1)

\* getSnappedNumber comparing with the snap value instead of the midpoint
getSnappedNumber_up(number) == SnapLoop_up(number, 1)

RECURSIVE SnapLoop_guide(_, _)
SnapLoop_guide(number, i) ==
    LET snapNumber == SNAP_VALUES[i]
        next == IF i + 1 <= Len(SNAP_VALUES) THEN SNAP_VALUES[i + 1] ELSE snapNumber
        guideValue == Num(snapNumber + next, 2)
    IN  IF Le(number, guideValue) \/ i = Len(SNAP_VALUES)
        THEN guideValue
        ELSE SnapLoop_guide(number, i + 1)

\* getSnappedNumber returning guideValue instead of snapNumber
getSnappedNumber_guide(number) == SnapLoop_guide(number, 1)

getSnappedNumber(number) == SnapLoop(number, 1)

getNormalizedStep(step) ==
    LET placeNumber == getDigits(step)
        simplifiedStepValue == Div(step, placeNumber)
    IN  Mul(getSnappedNumber(simplifiedStepValue), placeNumber)

(***************************************************************************)
(* getNormalizedLimit                                                      *)
(***************************************************************************)
\* NormalizedMax rounding down
NormalizedMax_floor(max, step) ==
    LET placeNumber == Div(Whole(1), Min(getDigits(max), getDigits(step)))
        fixedStep == Mul(step, placeNumber)
    IN  Div(Mul(Floor(Div(Mul(max, placeNumber), fixedStep)), fixedStep), placeNumber)

\* NormalizedMax always moving to the next multiple
NormalizedMax_next(max, step) ==
    LET placeNumber == Div(Whole(1), Min(getDigits(max), getDigits(step)))
        fixedStep == Mul(step, placeNumber)
    IN  Div(Mul(Add(Floor(Div(Mul(max, placeNumber), fixedStep)), Whole(1)), fixedStep),
            placeNumber)

NormalizedMax(max, step) ==
    LET placeNumber == Div(Whole(1), Min(getDigits(max), getDigits(step)))
        fixedStep == Mul(step, placeNumber)
    IN  Div(Mul(Ceil(Div(Mul(max, placeNumber), fixedStep)), fixedStep), placeNumber)

\* NormalizedMin rounding a negative min toward zero
NormalizedMin_inward(min, max, step) ==
    LET placeNumber == Div(Whole(1), Min(getDigits(max), getDigits(step)))
        fixedStep == Mul(step, placeNumber)
    IN  IF Gt(min, step)
        THEN Div(Mul(Floor(Div(Mul(min, placeNumber), fixedStep)), fixedStep), placeNumber)
        ELSE IF Lt(min, Whole(0))
        THEN Div(Neg(Mul(Floor(Div(Mul(Abs(min), placeNumber), fixedStep)), fixedStep)),
                 placeNumber)
        ELSE Whole(0)

\* NormalizedMin testing min >= step
NormalizedMin_ge(min, max, step) ==
    LET placeNumber == Div(Whole(1), Min(getDigits(max), getDigits(step)))
        fixedStep == Mul(step, placeNumber)
    IN  IF Le(step, min)
        THEN Div(Mul(Floor(Div(Mul(min, placeNumber), fixedStep)), fixedStep), placeNumber)
        ELSE IF Lt(min, Whole(0))
        THEN Div(Neg(Mul(Ceil(Div(Mul(Abs(min), placeNumber), fixedStep)), fixedStep)),
                 placeNumber)
        ELSE Whole(0)

NormalizedMin(min, max, step) ==
    LET placeNumber == Div(Whole(1), Min(getDigits(max), getDigits(step)))
        fixedStep == Mul(step, placeNumber)
    IN  IF Gt(min, step)
        THEN Div(Mul(Floor(Div(Mul(min, placeNumber), fixedStep)), fixedStep), placeNumber)
        ELSE IF Lt(min, Whole(0))
        THEN Div(Neg(Mul(Ceil(Div(Mul(Abs(min), placeNumber), fixedStep)), fixedStep)),
                 placeNumber)
        ELSE Whole(0)

getNormalizedLimit(min, max, step) ==
    [min |-> NormalizedMin(min, max, step), max |-> NormalizedMax(max, step)]

\* getNormalizedStepCount scaling the limit size only
getNormalizedStepCount_unscaled(limitSize, step) ==
    LET multiplier == Div(Whole(1), Min(getDigits(limitSize), getDigits(step)))
    IN  Div(Mul(limitSize, multiplier), step)

getNormalizedStepCount(limitSize, step) ==
    LET multiplier == Div(Whole(1), Min(getDigits(limitSize), getDigits(step)))
    IN  Div(Mul(limitSize, multiplier), Mul(step, multiplier))

getNormalizedScale(scale) ==
    LET step == getNormalizedStep(scale.step)
        edge == getNormalizedLimit(scale.limit.min, scale.limit.max, step)
        limitSize == Abs(Sub(edge.max, edge.min))
        stepCount == getNormalizedStepCount(limitSize, step)
    IN  [limit |-> [min |-> edge.min, max |-> edge.max],
         step |-> step,
         stepCount |-> stepCount]

(***************************************************************************)
(* getRoughScale                                                           *)
(***************************************************************************)
\* tui.util.isNumber
isNumber(x) == x # undefined

\* !stepCount
NoStepCount(stepCount) ==
    stepCount = undefined \/ stepCount = Whole(0) \/ isNaN(stepCount)

\* the step count getRoughScale divides the offset by
RoughStepCount(offsetSize, stepCount) ==
    IF NoStepCount(stepCount)
    THEN Ceil(Div(offsetSize, Whole(DEFAULT_PIXELS_PER_STEP)))
    ELSE stepCount

getRoughScale(min, max, offsetSize, stepCount, minimumStepSize) ==
    LET limitSize == Abs(Sub(max, min))
        valuePerPixel == Div(limitSize, offsetSize)
        count == RoughStepCount(offsetSize, stepCount)
        pixelsPerStep == Div(offsetSize, count)
        step == Mul(valuePerPixel, pixelsPerStep)
        clamp == isNumber(minimumStepSize) /\ Lt(step, minimumStepSize)
    IN  [limit |-> [min |-> min, max |-> max],
         step |-> IF clamp THEN minimumStepSize ELSE step,
         stepCount |-> IF clamp THEN Div(limitSize, minimumStepSize) ELSE count]

coordinateScaleCalculator(options) ==
    getNormalizedScale(getRoughScale(options.min, options.max, options.offsetSize,
                                     options.stepCount, options.minimumStepSize))


(***************************************************************************)
(* The values a call divides by, in the order the code divides.            *)
(***************************************************************************)
Divisors(options) ==
    LET min == options.min
        max == options.max
        offsetSize == options.offsetSize
        limitSize == Abs(Sub(max, min))
        count == RoughStepCount(offsetSize, options.stepCount)
        rough == getRoughScale(min, max, offsetSize, options.stepCount,
                               options.minimumStepSize)
        clamp == isNumber(options.minimumStepSize)
                 /\ Lt(Mul(Div(limitSize, offsetSize), Div(offsetSize, count)),
                       options.minimumStepSize)
        step == getNormalizedStep(rough.step)
        limitDigits == Min(getDigits(max), getDigits(step))
        placeNumber == Div(Whole(1), limitDigits)
        fixedStep == Mul(step, placeNumber)
        edge == getNormalizedLimit(min, max, step)
        edgeSize == Abs(Sub(edge.max, edge.min))
        countDigits == Min(getDigits(edgeSize), getDigits(step))
        multiplier == Div(Whole(1), countDigits)
    IN  {offsetSize, count, getDigits(rough.step), limitDigits, fixedStep, placeNumber,
         countDigits, Mul(step, multiplier)}
        \cup (IF clamp THEN {rough.step} ELSE {})
        \cup (IF NoStepCount(options.stepCount)
              THEN {Whole(DEFAULT_PIXELS_PER_STEP)} ELSE {})

(***************************************************************************)
(* Requests.                                                               *)
(***************************************************************************)
Request(min, max, offsetSize, stepCount, minimumStepSize) ==
    [min |-> min, max |-> max, offsetSize |-> offsetSize,
     stepCount |-> stepCount, minimumStepSize |-> minimumStepSize]

\* the units the data values are multiples of
Units == {Num(1, 10), Whole(1), Whole(25)}

Values == {Mul(Whole(k), u) : k \in -MaxK..MaxK, u \in Units}

OffsetSizes == {Whole(88), Whole(100), Whole(264)}

StepCounts == {undefined} \cup {Whole(n) : n \in 1..MaxStepCount}

MinimumStepSizes == {undefined, Whole(1), Whole(3), Num(3, 10)}

\* the requests of the documented scenarios
ScenarioA == Request(Whole(0), Whole(155), Whole(264), undefined, undefined)

ScenarioB == Request(Whole(-10), Whole(100), Whole(264), Whole(5), undefined)

ScenarioC == Request(Whole(5), Whole(95), Whole(176), undefined, undefined)

ScenarioD == Request(Whole(10), Whole(10), Whole(264), undefined, undefined)

Requests ==
    {Request(min, max, o, c, m) :
        min \in Values, max \in Values, o \in OffsetSizes,
        c \in StepCounts, m \in MinimumStepSizes}
    \cup {ScenarioA, ScenarioB, ScenarioC, ScenarioD}

\* min <= max and offsetSize > 0
ValidRequest(options) ==
    Le(options.min, options.max) /\ Gt(options.offsetSize, Whole(0))

\* the value of a scale variable before any call has returned
NoScale == [limit |-> [min |-> NaN, max |-> NaN], step |-> NaN, stepCount |-> NaN]

(***************************************************************************)
(* State: the caller's current request, the scales of the current call,    *)
(* and the request and result of the call before it.                       *)
(***************************************************************************)
VARIABLES pc, options, rough, scale, divisors, prevOptions, prev, calls

vars == <<pc, options, rough, scale, divisors, prevOptions, prev, calls>>

Init ==
    /\ pc = "ready"
    /\ options \in {r \in Requests : ValidRequest(r)}
    /\ rough = NoScale
    /\ scale = NoScale
    /\ divisors = {}
    /\ prevOptions = options
    /\ prev = NoScale
    /\ calls = 0

\* coordinateScaleCalculator(options)
Call ==
    /\ pc = "ready"
    /\ rough' = getRoughScale(options.min, options.max, options.offsetSize,
                              options.stepCount, options.minimumStepSize)
    /\ scale' = coordinateScaleCalculator(options)
    /\ divisors' = Divisors(options)
    /\ calls' = calls + 1
    /\ pc' = "done"
    /\ UNCHANGED <<options, prevOptions, prev>>

\* the caller feeds the returned limit back as the min and max of a new request
Recall ==
    /\ pc = "done"
    /\ calls < MaxCalls
    /\ prevOptions' = options
    /\ prev' = scale
    /\ options' = [options EXCEPT !.min = scale.limit.min, !.max = scale.limit.max]
    /\ pc' = "ready"
    /\ UNCHANGED <<rough, scale, divisors, calls>>

Next == Call \/ Recall

Spec == Init /\ [][Next]_vars


(***************************************************************************)
(* Vocabulary of the properties.                                           *)
(***************************************************************************)
\* the largest exponent k of 10 ^ k and 10 ^ -k a nice step is searched among
MaxExp == 6

RECURSIVE Pow10(_)
Pow10(k) ==
    IF k = 0 THEN Whole(1)
    ELSE IF k > 0 THEN Mul(Whole(10), Pow10(k - 1))
    ELSE Div(Pow10(k + 1), Whole(10))

\* x is an integer multiple of s
IsMultiple(x, s) == isFinite(Div(x, s)) /\ Div(x, s)[2] = 1

\* x = m * 10 ^ k for some m in {1, 2, 5, 10} and integer k
IsNice(x) ==
    \E m \in {1, 2, 5, 10}, k \in -MaxExp..MaxExp : x = Mul(Whole(m), Pow10(k))

\* every field of the scale is a finite number
Defined(s) ==
    /\ isFinite(s.limit.min)
    /\ isFinite(s.limit.max)
    /\ isFinite(s.step)
    /\ isFinite(s.stepCount)

Returned == pc = "done"

NoOptions(o) == o.stepCount = undefined /\ o.minimumStepSize = undefined

(***************************************************************************)
(* C1 Containment: for every request with min <= max and offsetSize > 0    *)
(* the returned limit.min is <= the input min and the returned limit.max   *)
(* is >= the input max.                                                    *)
(***************************************************************************)
C1_Containment ==
    (Returned /\ ValidRequest(options))
    => (Le(scale.limit.min, options.min) /\ Le(options.max, scale.limit.max))

\* both limits were moved strictly outward
C1_Witness ==
    /\ Returned
    /\ ValidRequest(options)
    /\ Lt(scale.limit.min, options.min)
    /\ Lt(options.max, scale.limit.max)

(***************************************************************************)
(* C2 Scenario A, as stated: min = 0, max = 155, offsetSize = 264 returns  *)
(* step = 20 and limit = {min: 0, max: 160}.                               *)
(***************************************************************************)
C2_ScenarioA_Original ==
    (Returned /\ calls = 1 /\ options = ScenarioA)
    => /\ scale.step = Whole(20)
       /\ scale.limit = [min |-> Whole(0), max |-> Whole(160)]

(***************************************************************************)
(* C2 Scenario A, amended: min = 0, max = 155, offsetSize = 264 returns    *)
(* step = 50 and limit = {min: 0, max: 200}.                               *)
(***************************************************************************)
C2_ScenarioA ==
    (Returned /\ calls = 1 /\ options = ScenarioA)
    => /\ scale.step = Whole(50)
       /\ scale.limit = [min |-> Whole(0), max |-> Whole(200)]

C2_Witness == Returned /\ calls = 1 /\ options = ScenarioA /\ Defined(scale)

(***************************************************************************)
(* C3 Step niceness: for every request with min < max the returned step    *)
(* is m * 10 ^ k with m in {1, 2, 5, 10}, and the step divided by its own  *)
(* order of magnitude is one of 1, 2, 5, 10.                               *)
(***************************************************************************)
C3_StepNiceness ==
    (Returned /\ Lt(options.min, options.max))
    => /\ IsNice(scale.step)
       /\ Div(scale.step, getDigits(scale.step))
              \in {Whole(1), Whole(2), Whole(5), Whole(10)}

\* a rough step whose leading part lies above every midpoint, snapped to 10
C3_Witness ==
    /\ Returned
    /\ Lt(options.min, options.max)
    /\ Gt(Div(rough.step, getDigits(rough.step)), Num(15, 2))
    /\ scale.step = Mul(Whole(10), getDigits(rough.step))

(***************************************************************************)
(* C4 Step-count consistency: the returned stepCount equals                *)
(* (limit.max - limit.min) / step of the returned limit and step.          *)
(***************************************************************************)
C4_StepCountConsistency ==
    (Returned /\ ValidRequest(options))
    => scale.stepCount = Div(Sub(scale.limit.max, scale.limit.min), scale.step)

\* the returned count is neither the rough count nor the caller's
C4_Witness ==
    /\ Returned
    /\ options.stepCount # undefined
    /\ scale.stepCount # options.stepCount
    /\ scale.stepCount # rough.stepCount
    /\ scale.stepCount = Div(Sub(scale.limit.max, scale.limit.min), scale.step)

(***************************************************************************)
(* C5 Idempotence, as stated: calling again with the returned limit as min *)
(* and max and the same offsetSize returns the same step and a limit equal *)
(* to the first one or inside it.                                          *)
(***************************************************************************)
C5_Idempotence_Original ==
    (Returned /\ calls >= 2 /\ NoOptions(options))
    => /\ scale.step = prev.step
       /\ Le(prev.limit.min, scale.limit.min)
       /\ Le(scale.limit.max, prev.limit.max)

(***************************************************************************)
(* C5 Re-normalization, amended: for a request with min < max, calling     *)
(* again with the returned limit as min and max and the same offsetSize    *)
(* returns a step that is equal to the first step or larger and a limit    *)
(* that is equal to the first limit or contains it.                        *)
(***************************************************************************)
C5_Renormalization ==
    (Returned /\ calls >= 2 /\ NoOptions(options)
        /\ Lt(prevOptions.min, prevOptions.max))
    => /\ Le(prev.step, scale.step)
       /\ Le(scale.limit.min, prev.limit.min)
       /\ Le(prev.limit.max, scale.limit.max)

\* a second call that returned a larger step and a wider limit
C5_Witness ==
    /\ Returned
    /\ calls >= 2
    /\ NoOptions(options)
    /\ Lt(prevOptions.min, prevOptions.max)
    /\ Lt(prev.step, scale.step)
    /\ Lt(prev.limit.max, scale.limit.max)

(***************************************************************************)
(* C6 Minimum step size: when the request supplies a positive              *)
(* minimumStepSize, the returned step is never smaller than it.            *)
(***************************************************************************)
C6_MinimumStepSize ==
    (Returned /\ ValidRequest(options) /\ options.minimumStepSize # undefined)
    => Le(options.minimumStepSize, scale.step)

(***************************************************************************)
(* C7 Fixed step count: when the request supplies a positive integer       *)
(* stepCount and no minimumStepSize, the returned stepCount equals it.     *)
(***************************************************************************)
C7_FixedStepCount ==
    (Returned /\ ValidRequest(options) /\ options.stepCount # undefined
        /\ options.minimumStepSize = undefined)
    => scale.stepCount = options.stepCount

(***************************************************************************)
(* C8 Degenerate range: for every request with min = max the call divides  *)
(* by no zero and returns a scale whose fields are all finite numbers and  *)
(* whose step is strictly positive.                                        *)
(***************************************************************************)
C8_DegenerateRange ==
    (Returned /\ options.min = options.max)
    => /\ \A d \in divisors : isFinite(d) /\ d # Whole(0)
       /\ Defined(scale)
       /\ Gt(scale.step, Whole(0))

\* a zero rough step was normalized to the step 10
C8_Witness ==
    /\ Returned
    /\ options.min = options.max
    /\ rough.step = Whole(0)
    /\ scale.step = Whole(10)

(***************************************************************************)
(* C9 Lower-limit policy: limit.min is the greatest multiple of step that  *)
(* is <= min when min > step, the negation of the least multiple of step   *)
(* that is >= |min| when min < 0, and 0 when 0 <= min <= step; exactly one *)
(* of the three cases applies.                                             *)
(***************************************************************************)
C9_LowerLimitPolicy ==
    Returned =>
        LET min == options.min
            step == scale.step
            low == scale.limit.min
            above == Gt(min, step)
            negative == Lt(min, Whole(0))
            within == Le(Whole(0), min) /\ Le(min, step)
        IN  /\ Gt(step, Whole(0))
            /\ above => /\ IsMultiple(low, step)
                        /\ Le(low, min)
                        /\ Lt(min, Add(low, step))
            /\ negative => /\ IsMultiple(Neg(low), step)
                           /\ Le(Abs(min), Neg(low))
                           /\ Lt(Neg(low), Add(Abs(min), step))
            /\ within => low = Whole(0)
            /\ above \/ negative \/ within
            /\ ~(above /\ negative) /\ ~(above /\ within) /\ ~(negative /\ within)

\* a min equal to the step is snapped to zero
C9_Witness ==
    /\ Returned
    /\ options.min = scale.step
    /\ scale.limit.min = Whole(0)

(***************************************************************************)
(* C10 Upper-limit ceiling: limit.max is the least multiple of step that   *)
(* is >= max, so max <= limit.max < max + step, for positive, zero and     *)
(* negative max; a max that is a multiple of step is unchanged.            *)
(***************************************************************************)
C10_UpperLimitCeiling ==
    Returned =>
        /\ IsMultiple(scale.limit.max, scale.step)
        /\ Le(options.max, scale.limit.max)
        /\ Lt(scale.limit.max, Add(options.max, scale.step))
        /\ IsMultiple(options.max, scale.step) => scale.limit.max = options.max

\* a negative max that is not a multiple of the step was rounded up
C10_Witness ==
    /\ Returned
    /\ Lt(options.max, Whole(0))
    /\ ~IsMultiple(options.max, scale.step)
    /\ Lt(options.max, scale.limit.max)
    /\ IsMultiple(scale.limit.max, scale.step)

(***************************************************************************)
(* C11 Magnitude of zero: getDigits applied to 0 returns 1, for each zero  *)
(* operand a call applies it to: a zero max in getNormalizedLimit, a zero  *)
(* limit size in getNormalizedStepCount and a zero rough step in           *)
(* getNormalizedStep.                                                      *)
(***************************************************************************)
C11_MagnitudeOfZero ==
    Returned =>
        LET limitSize == Abs(Sub(scale.limit.max, scale.limit.min))
        IN  /\ options.max = Whole(0) => getDigits(options.max) = Whole(1)
            /\ limitSize = Whole(0) => getDigits(limitSize) = Whole(1)
            /\ rough.step = Whole(0) => getDigits(rough.step) = Whole(1)

====
